---- MODULE Spec2Model ----
\* The order lifecycle of the restaurant ordering backend (src/server.js):
\* order creation inside a transaction, order and item status writes, the
\* cancellation log, the order list read and the events sent to dashboards,
\* over the MySQL schema of src/database.sql and src/update-schema-features.js.
EXTENDS Integers, Sequences, FiniteSets, TLC

\* ---------------------------------------------------------------------------
\* Unbounded naturals as little-endian limb sequences (base 2^15), used to
\* carry the 53-bit significands of JavaScript numbers.
\* ---------------------------------------------------------------------------
Limb == 32768

RECURSIVE BigTrim(_)
BigTrim(a) ==
  IF a = <<>> THEN <<>>
  ELSE IF a[Len(a)] = 0 THEN BigTrim(SubSeq(a, 1, Len(a) - 1)) ELSE a

RECURSIVE BigFromInt(_)
BigFromInt(n) == IF n = 0 THEN <<>> ELSE <<n % Limb>> \o BigFromInt(n \div Limb)

RECURSIVE BigToInt(_)
BigToInt(a) == IF a = <<>> THEN 0 ELSE a[1] + Limb * BigToInt(Tail(a))

RECURSIVE BigMulCarry(_, _, _)
BigMulCarry(a, c, carry) ==
  IF a = <<>> THEN BigFromInt(carry)
  ELSE LET t == a[1] * c + carry
       IN  <<t % Limb>> \o BigMulCarry(Tail(a), c, t \div Limb)

BigMulSmall(a, c) == BigTrim(BigMulCarry(a, c, 0))

RECURSIVE BigAddCarry(_, _, _)
BigAddCarry(a, b, carry) ==
  IF a = <<>> /\ b = <<>> THEN BigFromInt(carry)
  ELSE LET x == IF a = <<>> THEN 0 ELSE a[1]
           y == IF b = <<>> THEN 0 ELSE b[1]
           t == x + y + carry
       IN  <<t % Limb>> \o BigAddCarry(IF a = <<>> THEN <<>> ELSE Tail(a),
                                       IF b = <<>> THEN <<>> ELSE Tail(b),
                                       t \div Limb)

BigAdd(a, b) == BigTrim(BigAddCarry(a, b, 0))

\* Quotient and remainder of a by a small divisor, most significant limb first.
RECURSIVE BigDivRem(_, _, _)
BigDivRem(a, d, i) ==
  IF i = 0 THEN [q |-> <<>>, r |-> 0]
  ELSE LET hi == BigDivRem(a, d, i - 1)
           k  == Len(a) - i + 1
           t  == hi.r * Limb + a[k]
       IN  [q |-> <<t \div d>> \o hi.q, r |-> t % d]

BigDivSmall(a, d) ==
  LET res == BigDivRem(a, d, Len(a))
  IN  [q |-> BigTrim(res.q), r |-> res.r]

RECURSIVE Pow2(_)
Pow2(k) == IF k = 0 THEN 1 ELSE 2 * Pow2(k - 1)

\* a * 2^n: whole limbs are prepended, the rest is a small multiplication.
BigShl(a, n) ==
  IF a = <<>> THEN <<>>
  ELSE [i \in 1..(n \div 15) |-> 0] \o BigMulSmall(a, Pow2(n % 15))

RECURSIVE SmallBits(_)
SmallBits(n) == IF n = 0 THEN 0 ELSE 1 + SmallBits(n \div 2)

BigBitLen(a) == IF a = <<>> THEN 0 ELSE 15 * (Len(a) - 1) + SmallBits(a[Len(a)])

\* a shifted right by n >= 1 bits: the quotient, the last bit shifted out
\* (guard) and whether any bit below the guard was set (sticky).
BigShr(a, n, sticky) ==
  LET limbs == (n - 1) \div 15
      kept  == IF limbs >= Len(a) THEN <<>> ELSE SubSeq(a, limbs + 1, Len(a))
      lost  == \E i \in 1..Len(a) : i <= limbs /\ a[i] # 0
      low   == BigDivSmall(kept, Pow2((n - 1) % 15))
      half  == BigDivSmall(low.q, 2)
  IN  [q |-> half.q, guard |-> half.r, sticky |-> sticky \/ lost \/ low.r # 0]

\* ---------------------------------------------------------------------------
\* IEEE-754 binary64 values m * 2^e (m < 2^53), non-negative.
\* ---------------------------------------------------------------------------
\* Round m * 2^e (with a sticky remainder below the last bit of m) to a
\* 53-bit significand, ties to even.
RoundUp(s) == s.guard = 1 /\ (s.sticky \/ s.q[1] % 2 = 1)

RoundShifted(s, e) ==
  LET mant == IF RoundUp(s) THEN BigAdd(s.q, <<1>>) ELSE s.q
  IN  IF BigBitLen(mant) > 53
        THEN [m |-> BigDivSmall(mant, 2).q, e |-> e + 1]
        ELSE [m |-> mant, e |-> e]

RoundDouble(m, e, sticky) ==
  IF BigBitLen(m) <= 53 THEN [m |-> m, e |-> e]
  ELSE RoundShifted(BigShr(m, BigBitLen(m) - 53, sticky), e + (BigBitLen(m) - 53))

\* parseFloat of a decimal literal with three fraction digits (mills / 1000).
ParseFloat(mills) ==
  LET d == BigDivSmall(BigShl(BigFromInt(mills), 64), 1000)
  IN  RoundDouble(d.q, -64, d.r # 0)

\* x * q for a JavaScript number x and a small non-negative integer q.
DoubleMulInt(x, q) == RoundDouble(BigMulSmall(x.m, q), x.e, FALSE)

\* x + y for two JavaScript numbers.
DoubleAdd(x, y) ==
  IF x.m = <<>> THEN y
  ELSE IF y.m = <<>> THEN x
  ELSE LET lo == IF x.e < y.e THEN x.e ELSE y.e
       IN  RoundDouble(BigAdd(BigShl(x.m, x.e - lo), BigShl(y.m, y.e - lo)), lo, FALSE)

\* Number.prototype.toFixed(2), as hundredths: the integer n for which
\* n / 100 - x is closest to zero, the larger n on a tie.
ToFixed2(x) ==
  LET n == BigMulSmall(x.m, 100)
  IN  IF x.e >= 0 THEN BigToInt(BigShl(n, x.e))
      ELSE LET s == BigShr(n, 0 - x.e, FALSE)
           IN  BigToInt(s.q) + s.guard


\* ---------------------------------------------------------------------------
\* Values
\* ---------------------------------------------------------------------------
\* Request prices are decimal literals in thousandths; the DECIMAL(10, 2)
\* columns hold hundredths.
Procs == {1, 2}

\* The number of requests the server receives in a run.
MaxOps == 3

\* DECIMAL(10, 2) of a decimal literal: excess fraction digits round half up.
Decimal2(mills) == (mills + 5) \div 10

\* INSERT IGNORE INTO restaurant_tables ... (1, 'Table 1', ...) .. (10, ...)
DefaultTables == 10

\* The first two sample rows of menu_items.
SampleMenu ==
  (1 :> [name |-> "Margherita Pizza", price_inr |-> 29900, price_usd |-> 399]) @@
  (2 :> [name |-> "Chicken Biryani",  price_inr |-> 34900, price_usd |-> 449])

AllProps == {"id", "name", "quantity", "price_inr", "price_usd"}

Item(id, name, quantity, price_inr, price_usd) ==
  [id |-> id, name |-> name, quantity |-> quantity,
   price_inr |-> price_inr, price_usd |-> price_usd, defined |-> AllProps]

Pizza(q)   == Item(1, "Margherita Pizza", q, 299000, 3990)
Biryani(q) == Item(2, "Chicken Biryani", q, 349000, 4490)

\* A POST /api/orders body: `defined` names the properties the body carries.
Body(table_number, items, payment_method) ==
  [op |-> "CreateOrder", table_number |-> table_number, items |-> items,
   currency |-> "INR", payment_method |-> payment_method,
   defined |-> {"table_number", "items", "currency", "payment_method"}]

NoRequest == [op |-> "none"]
NoResponse == [status |-> 0]
NoLocal ==
  [table_id |-> 0, total_inr |-> [nan |-> FALSE, cents |-> 0],
   total_usd |-> [nan |-> FALSE, cents |-> 0], order_id |-> 0, idx |-> 0,
   itemsRows |-> <<>>, rows |-> <<>>, out |-> <<>>, affected |-> 0]
NoTxn == [active |-> FALSE, restaurant_tables |-> {}, orders |-> {}, order_items |-> {}]

VARIABLES
  table_groups,         \* rows of table_groups
  restaurant_tables,    \* committed rows of restaurant_tables
  menu_items,           \* rows of menu_items, by id
  orders,               \* committed rows of orders
  order_items,          \* committed rows of order_items
  order_cancellations,  \* committed rows of order_cancellations
  autoInc,              \* the next AUTO_INCREMENT value of each table
  txn,                  \* per request: the open transaction of its connection
  conn,                 \* per request: the pool connections it holds
  pc,                   \* per request: the await it is suspended at
  req,                  \* per request: the request being handled
  local,                \* per request: the handler's local variables, and as
                        \* history the rows its UPDATE matched (affected)
  res,                  \* per request: the response sent
  emitted,              \* the events passed to io.emit, in order
  submitted,            \* history: order id -> the body that inserted it
  started               \* the number of requests received

vars == <<table_groups, restaurant_tables, menu_items, orders, order_items,
          order_cancellations, autoInc, txn, conn, pc, req, local, res, emitted, submitted, started>>

db == <<table_groups, restaurant_tables, menu_items, orders, order_items,
       order_cancellations, autoInc>>

Init ==
  /\ table_groups = {[id |-> 1, name |-> "Non AC"]}
  /\ restaurant_tables = {[id |-> n, table_number |-> n, group_id |-> 0] :
                             n \in 1..DefaultTables}
  /\ menu_items = SampleMenu
  /\ orders = {}
  /\ order_items = {}
  /\ order_cancellations = {}
  /\ autoInc = [restaurant_tables |-> DefaultTables + 1, orders |-> 1, order_items |-> 1,
                order_cancellations |-> 1]
  /\ txn = [p \in Procs |-> NoTxn]
  /\ conn = [p \in Procs |-> 0]
  /\ pc = [p \in Procs |-> "idle"]
  /\ req = [p \in Procs |-> NoRequest]
  /\ local = [p \in Procs |-> NoLocal]
  /\ res = [p \in Procs |-> NoResponse]
  /\ emitted = <<>>
  /\ submitted = <<>>
  /\ started = 0

\* ---------------------------------------------------------------------------
\* Helpers over rows
\* ---------------------------------------------------------------------------
\* The rows of a set in primary-key order, as a result set.
RECURSIVE RowsById(_)
RowsById(rows) ==
  IF rows = {} THEN <<>>
  ELSE LET first == CHOOSE r \in rows : \A o \in rows : r.id <= o.id
       IN  <<first>> \o RowsById(rows \ {first})

\* What the connection of request p reads: committed rows and its own writes.
OrdersSeenBy(p) == orders \cup txn[p].orders

\* Variant: the read-back runs on the pool and sees committed rows only.
ItemsSeenByPool(p) == order_items

ItemsSeenBy(p) == order_items \cup txn[p].order_items

\* A row that another connection inserted and has not committed is locked.
OrderLocked(p, id) == \E o \in Procs \ {p} : \E r \in txn[o].orders : r.id = id
ItemLocked(p, id) == \E o \in Procs \ {p} : \E r \in txn[o].order_items : r.id = id

\* ---------------------------------------------------------------------------
\* POST /api/orders
\* ---------------------------------------------------------------------------
\* total += parseFloat(item.price) * item.quantity over the items, from 0.
RECURSIVE SumItems(_, _, _)
SumItems(items, prices, i) ==
  IF i = 0 THEN [m |-> <<>>, e |-> 0]
  ELSE DoubleAdd(SumItems(items, prices, i - 1),
                 DoubleMulInt(ParseFloat(prices[i]), items[i].quantity))

\* A missing price or quantity makes the sum NaN.
SumIsNaN(items, prop) ==
  \E i \in 1..Len(items) : {prop, "quantity"} \ items[i].defined # {}

\* total.toFixed(2): the text "NaN", or hundredths.
TotalInr(items) ==
  IF SumIsNaN(items, "price_inr") THEN [nan |-> TRUE, cents |-> 0]
  ELSE [nan |-> FALSE,
        cents |-> ToFixed2(SumItems(items, [i \in 1..Len(items) |-> items[i].price_inr],
                                    Len(items)))]

TotalUsd(items) ==
  IF SumIsNaN(items, "price_usd") THEN [nan |-> TRUE, cents |-> 0]
  ELSE [nan |-> FALSE,
        cents |-> ToFixed2(SumItems(items, [i \in 1..Len(items) |-> items[i].price_usd],
                                    Len(items)))]

\* Variant: the validation without the items.length test.
InvalidInputNoLength(body) ==
  \/ "table_number" \notin body.defined
  \/ body.table_number = 0
  \/ "items" \notin body.defined

\* if (!table_number || !items || items.length === 0)
InvalidInput(body) ==
  \/ "table_number" \notin body.defined
  \/ body.table_number = 0
  \/ "items" \notin body.defined
  \/ Len(body.items) = 0

\* Variant: the column default 'pending' whatever the payment method.
PaymentStatusDefault(payment_method) == "pending"

\* payment_method === 'cash' ? 'pending' : 'paid'
PaymentStatus(payment_method) == IF payment_method = "cash" THEN "pending" ELSE "paid"

\* The row INSERT INTO orders writes.
OrderRow(id, body, table_id, total_inr, total_usd) ==
  [id |-> id, table_id |-> table_id, table_number |-> body.table_number,
   total_amount_inr |-> total_inr.cents, total_amount_usd |-> total_usd.cents,
   currency |-> body.currency, payment_method |-> body.payment_method,
   order_status |-> "pending", payment_status |-> PaymentStatus(body.payment_method)]

\* Variant: the item is attached to the order inserted last on any connection
\* instead of the insertId of the request's own insert.
ItemRowOfLatestOrder(id, order_id, item) ==
  [id |-> id, order_id |-> autoInc.orders - 1, menu_item_id |-> item.id,
   item_name |-> item.name, quantity |-> item.quantity,
   price_inr |-> Decimal2(item.price_inr), price_usd |-> Decimal2(item.price_usd),
   item_status |-> "active"]

\* Variant: the item_status column without its default.
ItemRowStatusNull(id, order_id, item) ==
  [id |-> id, order_id |-> order_id, menu_item_id |-> item.id, item_name |-> item.name,
   quantity |-> item.quantity, price_inr |-> Decimal2(item.price_inr),
   price_usd |-> Decimal2(item.price_usd), item_status |-> "NULL"]

\* The row INSERT INTO order_items writes; item_status takes its default.
ItemRow(id, order_id, item) ==
  [id |-> id, order_id |-> order_id, menu_item_id |-> item.id, item_name |-> item.name,
   quantity |-> item.quantity, price_inr |-> Decimal2(item.price_inr),
   price_usd |-> Decimal2(item.price_usd), item_status |-> "active"]

\* The orders insert is refused: an undefined bind parameter, 'NaN' for a
\* DECIMAL column, or a table_id with no row in restaurant_tables
\* (FOREIGN KEY (table_id) REFERENCES restaurant_tables).
OrderInsertFails(body, table_id, total_inr, total_usd) ==
  \/ {"currency", "payment_method"} \ body.defined # {}
  \/ total_inr.nan \/ total_usd.nan
  \/ ~ \E t \in restaurant_tables : t.id = table_id

\* The order_items insert is refused: an undefined bind parameter, or a
\* menu_item_id with no row in menu_items.
ItemInsertFails(item) ==
  \/ item.defined # AllProps
  \/ item.id \notin DOMAIN menu_items

\* Variant: the insert runs on the pool (autocommit), outside the transaction.
WriteOrderAutocommit(p, row) ==
  /\ orders' = orders \cup {row}
  /\ UNCHANGED <<txn, order_items>>

\* connection.execute('INSERT INTO orders ...') runs in the transaction that
\* connection.beginTransaction() opened: the row stays with the connection
\* until the commit.
WriteOrder(p, row) ==
  /\ txn' = [txn EXCEPT ![p].orders = @ \cup {row}]
  /\ UNCHANGED <<orders, order_items>>

\* connection.execute('INSERT INTO order_items ...'), in the same transaction.
WriteItem(p, row) ==
  /\ txn' = [txn EXCEPT ![p].order_items = @ \cup {row}]
  /\ UNCHANGED <<orders, order_items>>

\* A request arrives and is handled in the lowest free slot.
Receive(p, body) ==
  /\ pc[p] = "idle"
  /\ \A q \in Procs : q < p => pc[q] # "idle"
  /\ started < MaxOps
  /\ started' = started + 1
  /\ req' = [req EXCEPT ![p] = body]
  /\ local' = [local EXCEPT ![p] = NoLocal]
  /\ res' = [res EXCEPT ![p] = NoResponse]

\* The response is sent and the handler returns; of its locals only the
\* order id is kept, as history.
Finish(p, response) ==
  /\ res' = [res EXCEPT ![p] = response]
  /\ pc' = [pc EXCEPT ![p] = "idle"]

Forget(p) == local' = [local EXCEPT ![p] = [NoLocal EXCEPT !.order_id = local[p].order_id]]

CreateOrderReceive(p, body) ==
  /\ Receive(p, body)
  /\ pc' = [pc EXCEPT ![p] = "co_getConnection"]
  /\ UNCHANGED <<db, txn, conn, emitted, submitted>>

\* const connection = await pool.getConnection();
CreateOrderGetConnection(p) ==
  /\ pc[p] = "co_getConnection"
  /\ conn' = [conn EXCEPT ![p] = @ + 1]
  /\ pc' = [pc EXCEPT ![p] = "co_beginTransaction"]
  /\ UNCHANGED <<db, txn, req, local, res, emitted, submitted, started>>

\* await connection.beginTransaction(); then the validation decides the next await.
CreateOrderBeginTransaction(p) ==
  /\ pc[p] = "co_beginTransaction"
  /\ txn' = [txn EXCEPT ![p] = [NoTxn EXCEPT !.active = TRUE]]
  /\ pc' = [pc EXCEPT ![p] = IF InvalidInput(req[p]) THEN "co_rollbackInvalid"
                              ELSE "co_selectTable"]
  /\ UNCHANGED <<db, conn, req, local, res, emitted, submitted, started>>

\* await connection.rollback(); return res.status(400)...; finally release.
CreateOrderRollbackInvalid(p) ==
  /\ pc[p] = "co_rollbackInvalid"
  /\ txn' = [txn EXCEPT ![p] = NoTxn]
  /\ conn' = [conn EXCEPT ![p] = @ - 1]
  /\ Finish(p, [status |-> 400])
  /\ Forget(p)
  /\ UNCHANGED <<db, req, emitted, submitted, started>>

\* SELECT id FROM restaurant_tables WHERE table_number = ?; the totals are
\* computed before the next await.
CreateOrderSelectTable(p) ==
  /\ pc[p] = "co_selectTable"
  /\ LET tableRows == RowsById({t \in restaurant_tables :
                                   t.table_number = req[p].table_number})
     IN  IF Len(tableRows) = 0
           THEN /\ pc' = [pc EXCEPT ![p] = "co_rollbackNotFound"]
                /\ UNCHANGED local
           ELSE /\ pc' = [pc EXCEPT ![p] = "co_insertOrder"]
                /\ local' = [local EXCEPT ![p].table_id = tableRows[1].id,
                                          ![p].total_inr = TotalInr(req[p].items),
                                          ![p].total_usd = TotalUsd(req[p].items)]
  /\ UNCHANGED <<db, txn, conn, req, res, emitted, submitted, started>>

\* await connection.rollback(); return res.status(404)...; finally release.
CreateOrderRollbackNotFound(p) ==
  /\ pc[p] = "co_rollbackNotFound"
  /\ txn' = [txn EXCEPT ![p] = NoTxn]
  /\ conn' = [conn EXCEPT ![p] = @ - 1]
  /\ Finish(p, [status |-> 404])
  /\ Forget(p)
  /\ UNCHANGED <<db, req, emitted, submitted, started>>

\* INSERT INTO orders ...: the row is written in the transaction and takes
\* the next AUTO_INCREMENT value, which a rollback does not give back.
CreateOrderInsertOrder(p) ==
  /\ pc[p] = "co_insertOrder"
  /\ IF OrderInsertFails(req[p], local[p].table_id, local[p].total_inr, local[p].total_usd)
       THEN /\ pc' = [pc EXCEPT ![p] = "co_catch"]
            /\ UNCHANGED <<txn, orders, order_items, autoInc, local, submitted>>
       ELSE /\ WriteOrder(p, OrderRow(autoInc.orders, req[p], local[p].table_id,
                                      local[p].total_inr, local[p].total_usd))
            /\ autoInc' = [autoInc EXCEPT !.orders = @ + 1]
            /\ local' = [local EXCEPT ![p].order_id = autoInc.orders, ![p].idx = 1]
            /\ submitted' = Append(submitted, req[p])
            /\ pc' = [pc EXCEPT ![p] = "co_insertItem"]
  /\ UNCHANGED <<table_groups, restaurant_tables, menu_items, order_cancellations, conn, req, res,
                 emitted, started>>

\* for (const item of items) await connection.execute('INSERT INTO order_items ...')
CreateOrderInsertItem(p) ==
  /\ pc[p] = "co_insertItem"
  /\ LET item == req[p].items[local[p].idx]
     IN  IF ItemInsertFails(item)
           THEN /\ pc' = [pc EXCEPT ![p] = "co_catch"]
                /\ UNCHANGED <<txn, orders, order_items, autoInc, local>>
           ELSE /\ WriteItem(p, ItemRow(autoInc.order_items, local[p].order_id, item))
                /\ autoInc' = [autoInc EXCEPT !.order_items = @ + 1]
                /\ local' = [local EXCEPT ![p].idx = @ + 1]
                /\ pc' = [pc EXCEPT ![p] = IF local[p].idx = Len(req[p].items)
                                            THEN "co_selectItems" ELSE "co_insertItem"]
  /\ UNCHANGED <<table_groups, restaurant_tables, menu_items, order_cancellations, conn, req, res,
                 emitted, submitted, started>>

\* SELECT * FROM order_items WHERE order_id = ?  (inside the transaction)
CreateOrderSelectItems(p) ==
  /\ pc[p] = "co_selectItems"
  /\ local' = [local EXCEPT ![p].itemsRows =
                 RowsById({r \in ItemsSeenBy(p) : r.order_id = local[p].order_id})]
  /\ pc' = [pc EXCEPT ![p] = "co_commit"]
  /\ UNCHANGED <<db, txn, conn, req, res, emitted, submitted, started>>

\* await connection.commit(): the rows of the transaction become visible at once.
CreateOrderCommit(p) ==
  /\ pc[p] = "co_commit"
  /\ orders' = orders \cup txn[p].orders
  /\ order_items' = order_items \cup txn[p].order_items
  /\ txn' = [txn EXCEPT ![p] = NoTxn]
  /\ pc' = [pc EXCEPT ![p] = "co_selectOrder"]
  /\ UNCHANGED <<table_groups, restaurant_tables, menu_items, order_cancellations, autoInc,
                 conn, req, local, res, emitted, submitted, started>>

\* SELECT * FROM orders WHERE id = ?  (after the commit), then
\* io.emit('new-order', orderData); res.json(...); finally release.
CreateOrderSelectOrder(p) ==
  /\ pc[p] = "co_selectOrder"
  /\ LET orderRows == RowsById({o \in OrdersSeenBy(p) : o.id = local[p].order_id})
         orderData == [row |-> orderRows, items |-> local[p].itemsRows]
     IN  /\ emitted' = Append(emitted, [event |-> "new-order", data |-> orderData])
         /\ Finish(p, [status |-> 200, data |-> orderData])
  /\ conn' = [conn EXCEPT ![p] = @ - 1]
  /\ Forget(p)
  /\ UNCHANGED <<db, txn, req, submitted, started>>

\* catch (error) { await connection.rollback(); res.status(500)... } finally release.
CreateOrderCatch(p) ==
  /\ pc[p] = "co_catch"
  /\ txn' = [txn EXCEPT ![p] = NoTxn]
  /\ conn' = [conn EXCEPT ![p] = @ - 1]
  /\ Finish(p, [status |-> 500])
  /\ Forget(p)
  /\ UNCHANGED <<db, req, emitted, submitted, started>>

CreateOrderStep(p) ==
  \/ CreateOrderGetConnection(p)
  \/ CreateOrderBeginTransaction(p)
  \/ CreateOrderRollbackInvalid(p)
  \/ CreateOrderSelectTable(p)
  \/ CreateOrderRollbackNotFound(p)
  \/ CreateOrderInsertOrder(p)
  \/ CreateOrderInsertItem(p)
  \/ CreateOrderSelectItems(p)
  \/ CreateOrderCommit(p)
  \/ CreateOrderSelectOrder(p)
  \/ CreateOrderCatch(p)

\* The bodies the clients send to POST /api/orders: an order of one item, an
\* order of two items (one price with a third decimal), an order whose
\* second item is not on the menu, an order without items and an order for
\* a table that does not exist.
CreateBodies ==
  { Body(3, <<Pizza(2)>>, "cash"),
    Body(1, <<Pizza(1), Item(2, "Chicken Biryani", 3, 349005, 4490)>>, "card"),
    Body(1, <<Pizza(1), Item(77, "Off Menu", 1, 1000, 10)>>, "cash"),
    Body(1, <<>>, "cash"),
    Body(999, <<Pizza(1)>>, "cash") }

\* Bodies that exercise the validation: no items, no item list, table
\* number 0, an unknown table, quantity 0, no quantity, prices with a third
\* decimal, another payment method.
InputBodies ==
  { Body(3, <<Pizza(2)>>, "cash"),
    Body(1, <<>>, "cash"),
    [Body(1, <<>>, "cash") EXCEPT !.defined = @ \ {"items"}],
    Body(0, <<Pizza(1)>>, "cash"),
    Body(999, <<Pizza(1)>>, "cash"),
    Body(1, <<Pizza(0)>>, "cash"),
    Body(1, <<[Pizza(1) EXCEPT !.defined = AllProps \ {"quantity"}]>>, "cash"),
    Body(2, <<Item(2, "Chicken Biryani", 1, 1005, 15)>>, "upi"),
    Body(2, <<Item(1, "Margherita Pizza", 3, 299125, 3995), Biryani(1)>>, "card") }

\* ---------------------------------------------------------------------------
\* PUT /api/orders/:id/status
\* ---------------------------------------------------------------------------
StatusBody(id, order_status) ==
  [op |-> "UpdateOrderStatus", id |-> id, order_status |-> order_status]

\* Variant: the handler goes on whatever the UPDATE matched.
AffectedRowsIgnored(id) == 1

\* result.affectedRows of the UPDATE: the rows the WHERE clause matched.
AffectedRows(id) == Cardinality({o \in orders : o.id = id})

UpdateOrderStatusReceive(p, body) ==
  /\ Receive(p, body)
  /\ pc' = [pc EXCEPT ![p] = "us_update"]
  /\ UNCHANGED <<db, txn, conn, emitted, submitted>>

\* Variant: a status update is applied only if it does not take the order
\* back in pending, preparing, ready, served, cancelled; otherwise 400.
UpdateOrderStatusUpdateForwardOnly(p) ==
  /\ pc[p] = "us_update"
  /\ ~OrderLocked(p, req[p].id)
  /\ LET rank == [s \in {"pending", "preparing", "ready", "served", "cancelled"} |->
                   CASE s = "pending" -> 1 [] s = "preparing" -> 2 [] s = "ready" -> 3
                     [] s = "served" -> 4 [] s = "cancelled" -> 5]
         back == \E o \in orders : o.id = req[p].id
                                     /\ rank[req[p].order_status] < rank[o.order_status]
     IN  IF back
           THEN /\ Finish(p, [status |-> 400])
                /\ UNCHANGED orders
           ELSE /\ orders' = {IF o.id = req[p].id
                                THEN [o EXCEPT !.order_status = req[p].order_status]
                                ELSE o : o \in orders}
                /\ IF AffectedRows(req[p].id) = 0
                     THEN Finish(p, [status |-> 404])
                     ELSE /\ pc' = [pc EXCEPT ![p] = "us_select"]
                          /\ UNCHANGED res
  /\ UNCHANGED <<table_groups, restaurant_tables, menu_items, order_items,
                 order_cancellations, autoInc, txn, conn, req, local, emitted,
                 submitted, started>>

\* Variant: a status update to served also marks the order as paid.
UpdateOrderStatusUpdateMarksPaid(p) ==
  /\ pc[p] = "us_update"
  /\ ~OrderLocked(p, req[p].id)
  /\ orders' = {IF o.id = req[p].id
                  THEN [o EXCEPT !.order_status = req[p].order_status,
                                 !.payment_status = IF req[p].order_status = "served"
                                                      THEN "paid" ELSE @]
                  ELSE o : o \in orders}
  /\ IF AffectedRows(req[p].id) = 0
       THEN Finish(p, [status |-> 404])
       ELSE /\ pc' = [pc EXCEPT ![p] = "us_select"]
            /\ UNCHANGED res
  /\ UNCHANGED <<table_groups, restaurant_tables, menu_items, order_items,
                 order_cancellations, autoInc, txn, conn, req, local, emitted,
                 submitted, started>>

\* UPDATE orders SET order_status = ? WHERE id = ?; affectedRows counts the
\* rows matched. if (result.affectedRows === 0) return res.status(404)...
UpdateOrderStatusUpdate(p) ==
  /\ pc[p] = "us_update"
  /\ ~OrderLocked(p, req[p].id)
  /\ orders' = {IF o.id = req[p].id THEN [o EXCEPT !.order_status = req[p].order_status]
                ELSE o : o \in orders}
  /\ IF AffectedRows(req[p].id) = 0
       THEN Finish(p, [status |-> 404])
       ELSE /\ pc' = [pc EXCEPT ![p] = "us_select"]
            /\ UNCHANGED res
  /\ UNCHANGED <<table_groups, restaurant_tables, menu_items, order_items, order_cancellations,
                 autoInc, txn, conn, req, local, emitted, submitted, started>>

\* SELECT * FROM orders WHERE id = ?; io.emit('order-status-updated', updatedOrder[0]);
\* res.json({ success: true, data: updatedOrder[0] })
UpdateOrderStatusSelect(p) ==
  /\ pc[p] = "us_select"
  /\ LET updatedOrder == RowsById({o \in orders : o.id = req[p].id})
     IN  /\ emitted' = Append(emitted, [event |-> "order-status-updated",
                                        data |-> updatedOrder])
         /\ Finish(p, [status |-> 200, data |-> updatedOrder])
  /\ UNCHANGED <<db, txn, conn, req, local, submitted, started>>

UpdateOrderStatusStep(p) ==
  \/ UpdateOrderStatusUpdate(p)
  \/ UpdateOrderStatusSelect(p)

\* ---------------------------------------------------------------------------
\* POST /api/orders/:id/cancel and POST /api/orders/:id/items/:itemId/cancel
\* ---------------------------------------------------------------------------
CancelBody(id, defined) ==
  [op |-> "CancelOrder", id |-> id, reason |-> "changed my mind",
   cancelled_by |-> "customer", defined |-> defined]

CancelItemBody(id, itemId, defined) ==
  [op |-> "CancelOrderItem", id |-> id, itemId |-> itemId, reason |-> "changed my mind",
   cancelled_by |-> "customer", defined |-> defined]

\* Variant: at most one whole-order record per order (a unique order_id).
CancellationInsertFailsOnRepeat(body) ==
  \/ {"reason", "cancelled_by"} \ body.defined # {}
  \/ ~ \E o \in orders : o.id = body.id
  \/ \E r \in order_cancellations : r.order_id = body.id /\ r.item_id = 0

\* The order_cancellations insert is refused: an undefined bind parameter, or
\* an order_id with no row in orders (FOREIGN KEY (order_id) REFERENCES orders).
CancellationInsertFails(body) ==
  \/ {"reason", "cancelled_by"} \ body.defined # {}
  \/ ~ \E o \in orders : o.id = body.id

\* The row INSERT INTO order_cancellations writes; item_id 0 is NULL.
CancellationRow(id, body, item_id) ==
  [id |-> id, order_id |-> body.id, item_id |-> item_id, reason |-> body.reason,
   cancelled_by |-> body.cancelled_by]

CancelOrderReceive(p, body) ==
  /\ Receive(p, body)
  /\ pc' = [pc EXCEPT ![p] = "ca_update"]
  /\ UNCHANGED <<db, txn, conn, emitted, submitted>>

\* Variant: the cancellation applies to a pending order only
\* (WHERE id = ? AND order_status = "pending").
CancelOrderUpdateIfPending(p) ==
  /\ pc[p] = "ca_update"
  /\ ~OrderLocked(p, req[p].id)
  /\ orders' = {IF o.id = req[p].id /\ o.order_status = "pending"
                  THEN [o EXCEPT !.order_status = "cancelled"]
                  ELSE o : o \in orders}
  /\ local' = [local EXCEPT ![p].affected = AffectedRows(req[p].id)]
  /\ pc' = [pc EXCEPT ![p] = "ca_insert"]
  /\ UNCHANGED <<table_groups, restaurant_tables, menu_items, order_items,
                 order_cancellations, autoInc, txn, conn, req, res, emitted,
                 submitted, started>>

\* UPDATE orders SET order_status = "cancelled" WHERE id = ?
CancelOrderUpdate(p) ==
  /\ pc[p] = "ca_update"
  /\ ~OrderLocked(p, req[p].id)
  /\ orders' = {IF o.id = req[p].id THEN [o EXCEPT !.order_status = "cancelled"]
                ELSE o : o \in orders}
  /\ local' = [local EXCEPT ![p].affected = AffectedRows(req[p].id)]
  /\ pc' = [pc EXCEPT ![p] = "ca_insert"]
  /\ UNCHANGED <<table_groups, restaurant_tables, menu_items, order_items, order_cancellations,
                 autoInc, txn, conn, req, res, emitted, submitted, started>>

\* INSERT INTO order_cancellations (order_id, reason, cancelled_by); then
\* res.json({ success: true }), or the catch's res.status(500).
CancelOrderInsert(p) ==
  /\ pc[p] = "ca_insert"
  /\ ~OrderLocked(p, req[p].id)
  /\ IF CancellationInsertFails(req[p])
       THEN /\ Finish(p, [status |-> 500])
            /\ UNCHANGED <<order_cancellations, autoInc>>
       ELSE /\ order_cancellations' = order_cancellations \cup
                 {CancellationRow(autoInc.order_cancellations, req[p], 0)}
            /\ autoInc' = [autoInc EXCEPT !.order_cancellations = @ + 1]
            /\ Finish(p, [status |-> 200])
  /\ UNCHANGED <<table_groups, restaurant_tables, menu_items, orders, order_items,
                 txn, conn, req, local, emitted, submitted, started>>

CancelOrderItemReceive(p, body) ==
  /\ Receive(p, body)
  /\ pc' = [pc EXCEPT ![p] = "ci_update"]
  /\ UNCHANGED <<db, txn, conn, emitted, submitted>>

\* Variant: the UPDATE without its id = ? condition cancels every item of the order.
CancelOrderItemUpdateAllItems(p) ==
  /\ pc[p] = "ci_update"
  /\ ~ItemLocked(p, req[p].itemId)
  /\ order_items' = {IF r.order_id = req[p].id
                       THEN [r EXCEPT !.item_status = "cancelled"]
                       ELSE r : r \in order_items}
  /\ local' = [local EXCEPT ![p].affected =
                 Cardinality({r \in order_items :
                                r.id = req[p].itemId /\ r.order_id = req[p].id})]
  /\ pc' = [pc EXCEPT ![p] = "ci_insert"]
  /\ UNCHANGED <<table_groups, restaurant_tables, menu_items, orders, order_cancellations,
                 autoInc, txn, conn, req, res, emitted, submitted, started>>

\* Variant: cancelling an item also writes the status of its order.
CancelOrderItemUpdateCancelsOrder(p) ==
  /\ pc[p] = "ci_update"
  /\ ~ItemLocked(p, req[p].itemId)
  /\ order_items' = {IF r.id = req[p].itemId /\ r.order_id = req[p].id
                       THEN [r EXCEPT !.item_status = "cancelled"]
                       ELSE r : r \in order_items}
  /\ orders' = {IF o.id = req[p].id THEN [o EXCEPT !.order_status = "cancelled"]
                ELSE o : o \in orders}
  /\ local' = [local EXCEPT ![p].affected =
                 Cardinality({r \in order_items :
                                r.id = req[p].itemId /\ r.order_id = req[p].id})]
  /\ pc' = [pc EXCEPT ![p] = "ci_insert"]
  /\ UNCHANGED <<table_groups, restaurant_tables, menu_items, order_cancellations,
                 autoInc, txn, conn, req, res, emitted, submitted, started>>

\* UPDATE order_items SET item_status = "cancelled" WHERE id = ? AND order_id = ?
CancelOrderItemUpdate(p) ==
  /\ pc[p] = "ci_update"
  /\ ~ItemLocked(p, req[p].itemId)
  /\ order_items' = {IF r.id = req[p].itemId /\ r.order_id = req[p].id
                       THEN [r EXCEPT !.item_status = "cancelled"]
                       ELSE r : r \in order_items}
  /\ local' = [local EXCEPT ![p].affected =
                 Cardinality({r \in order_items :
                                r.id = req[p].itemId /\ r.order_id = req[p].id})]
  /\ pc' = [pc EXCEPT ![p] = "ci_insert"]
  /\ UNCHANGED <<table_groups, restaurant_tables, menu_items, orders, order_cancellations,
                 autoInc, txn, conn, req, res, emitted, submitted, started>>

\* INSERT INTO order_cancellations (order_id, item_id, reason, cancelled_by); then
\* res.json({ success: true }), or the catch's res.status(500).
CancelOrderItemInsert(p) ==
  /\ pc[p] = "ci_insert"
  /\ ~OrderLocked(p, req[p].id)
  /\ IF CancellationInsertFails(req[p])
       THEN /\ Finish(p, [status |-> 500])
            /\ UNCHANGED <<order_cancellations, autoInc>>
       ELSE /\ order_cancellations' = order_cancellations \cup
                 {CancellationRow(autoInc.order_cancellations, req[p], req[p].itemId)}
            /\ autoInc' = [autoInc EXCEPT !.order_cancellations = @ + 1]
            /\ Finish(p, [status |-> 200])
  /\ UNCHANGED <<table_groups, restaurant_tables, menu_items, orders, order_items,
                 txn, conn, req, local, emitted, submitted, started>>

CancelStep(p) ==
  \/ CancelOrderUpdate(p)
  \/ CancelOrderInsert(p)
  \/ CancelOrderItemUpdate(p)
  \/ CancelOrderItemInsert(p)

\* ---------------------------------------------------------------------------
\* GET /api/orders (no filter)
\* ---------------------------------------------------------------------------
GetOrdersReceive(p) ==
  /\ Receive(p, [op |-> "GetOrders"])
  /\ pc' = [pc EXCEPT ![p] = "go_selectOrders"]
  /\ UNCHANGED <<db, txn, conn, emitted, submitted>>

\* The rows of a set from the newest to the oldest.
RECURSIVE Newest(_)
Newest(rows) ==
  IF rows = {} THEN <<>>
  ELSE LET last == CHOOSE r \in rows : \A o \in rows : r.id >= o.id
       IN  <<last>> \o Newest(rows \ {last})

\* SELECT * FROM orders ORDER BY created_at DESC
GetOrdersSelectOrders(p) ==
  /\ pc[p] = "go_selectOrders"
  /\ IF orders = {}
       THEN /\ Finish(p, [status |-> 200, data |-> <<>>])
            /\ UNCHANGED local
       ELSE /\ local' = [local EXCEPT ![p].rows = Newest(orders), ![p].idx = 1]
            /\ pc' = [pc EXCEPT ![p] = "go_selectItems"]
            /\ UNCHANGED res
  /\ UNCHANGED <<db, txn, conn, req, emitted, submitted, started>>

\* orders.map(async (order) => SELECT * FROM order_items WHERE order_id = ?),
\* one statement per order; res.json once the last has answered.
GetOrdersSelectItems(p) ==
  /\ pc[p] = "go_selectItems"
  /\ LET order == local[p].rows[local[p].idx]
         items == RowsById({r \in order_items : r.order_id = order.id})
         out   == Append(local[p].out, [row |-> order, items |-> items])
     IN  IF local[p].idx = Len(local[p].rows)
           THEN /\ Finish(p, [status |-> 200, data |-> out])
                /\ Forget(p)
           ELSE /\ local' = [local EXCEPT ![p].out = out, ![p].idx = @ + 1]
                /\ UNCHANGED <<pc, res>>
  /\ UNCHANGED <<db, txn, conn, req, emitted, submitted, started>>

GetOrdersStep(p) ==
  \/ GetOrdersSelectOrders(p)
  \/ GetOrdersSelectItems(p)

\* ---------------------------------------------------------------------------
\* PUT /api/menu/:id
\* ---------------------------------------------------------------------------
MenuBody(id, name, price_inr, price_usd) ==
  [op |-> "UpdateMenuItem", id |-> id, name |-> name,
   price_inr |-> price_inr, price_usd |-> price_usd]

UpdateMenuItemReceive(p, body) ==
  /\ Receive(p, body)
  /\ pc' = [pc EXCEPT ![p] = "mu_update"]
  /\ UNCHANGED <<db, txn, conn, emitted, submitted>>

\* UPDATE menu_items SET name = ?, ..., price_inr = ?, price_usd = ? WHERE id = ?
UpdateMenuItemUpdate(p) ==
  /\ pc[p] = "mu_update"
  /\ IF req[p].id \in DOMAIN menu_items
       THEN /\ menu_items' = [menu_items EXCEPT ![req[p].id] =
                                [name |-> req[p].name,
                                 price_inr |-> Decimal2(req[p].price_inr),
                                 price_usd |-> Decimal2(req[p].price_usd)]]
            /\ pc' = [pc EXCEPT ![p] = "mu_select"]
            /\ UNCHANGED res
       ELSE /\ Finish(p, [status |-> 404])
            /\ UNCHANGED menu_items
  /\ UNCHANGED <<table_groups, restaurant_tables, orders, order_items, order_cancellations,
                 autoInc, txn, conn, req, local, emitted, submitted, started>>

\* SELECT * FROM menu_items WHERE id = ?; res.json({ success: true, data: updatedItem[0] })
UpdateMenuItemSelect(p) ==
  /\ pc[p] = "mu_select"
  /\ Finish(p, [status |-> 200, data |-> menu_items[req[p].id]])
  /\ UNCHANGED <<db, txn, conn, req, local, emitted, submitted, started>>

UpdateMenuItemStep(p) ==
  \/ UpdateMenuItemUpdate(p)
  \/ UpdateMenuItemSelect(p)

\* ---------------------------------------------------------------------------
\* The requests the clients send
\* ---------------------------------------------------------------------------
\* The order and item ids the clients name; a named row may not exist (yet).
OrderIds == {1, 2}
ItemIds == {1, 2}

StatusBodies == {StatusBody(id, s) : id \in OrderIds, s \in {"preparing", "served"}}

CancelBodies == {CancelBody(id, {"reason", "cancelled_by"}) : id \in OrderIds}

CancelItemBodies ==
  {CancelItemBody(id, itemId, {"reason", "cancelled_by"}) : id \in OrderIds, itemId \in ItemIds}

MenuBodies == {MenuBody(1, "Pizza Special", 319000, 4250), MenuBody(9, "Soup", 99000, 1290)}

Step(p) ==
  \/ CreateOrderStep(p)
  \/ UpdateOrderStatusStep(p)
  \/ CancelStep(p)
  \/ GetOrdersStep(p)
  \/ UpdateMenuItemStep(p)

Next ==
  \E p \in Procs :
    \/ \E body \in CreateBodies : CreateOrderReceive(p, body)
    \/ \E body \in StatusBodies : UpdateOrderStatusReceive(p, body)
    \/ \E body \in CancelBodies : CancelOrderReceive(p, body)
    \/ \E body \in CancelItemBodies : CancelOrderItemReceive(p, body)
    \/ \E body \in MenuBodies : UpdateMenuItemReceive(p, body)
    \/ GetOrdersReceive(p)
    \/ Step(p)

Spec == Init /\ [][Next]_vars

\* ---------------------------------------------------------------------------
\* Failures of the store and of the broadcaster
\* ---------------------------------------------------------------------------
\* The awaits of POST /api/orders inside its try block.
CreateOrderAwaits ==
  {"co_beginTransaction", "co_rollbackInvalid", "co_selectTable", "co_rollbackNotFound",
   "co_insertOrder", "co_insertItem", "co_selectItems", "co_commit", "co_selectOrder"}

\* The statement awaited by POST /api/orders rejects: control passes to the
\* catch block. A commit that rejects has committed nothing.
CreateOrderStoreFault(p) ==
  /\ pc[p] \in CreateOrderAwaits
  /\ pc' = [pc EXCEPT ![p] = "co_catch"]
  /\ UNCHANGED <<db, txn, conn, req, local, res, emitted, submitted, started>>

\* io.emit('new-order', ...) throws after the read-back: nothing is sent and
\* control passes to the catch block.
CreateOrderEmitFault(p) ==
  /\ pc[p] = "co_selectOrder"
  /\ pc' = [pc EXCEPT ![p] = "co_catch"]
  /\ UNCHANGED <<db, txn, conn, req, local, res, emitted, submitted, started>>

\* The statement awaited by one of the pool.execute handlers rejects (or, in
\* PUT /api/orders/:id/status, io.emit throws): catch, res.status(500).
PoolAwaits ==
  {"us_update", "us_select", "ca_update", "ca_insert", "ci_update", "ci_insert",
   "go_selectOrders", "go_selectItems", "mu_update", "mu_select"}

PoolStoreFault(p) ==
  /\ pc[p] \in PoolAwaits
  /\ Finish(p, [status |-> 500])
  /\ Forget(p)
  /\ UNCHANGED <<db, txn, conn, req, emitted, submitted, started>>

NextFault ==
  \/ Next
  \/ \E p \in Procs :
       \/ CreateOrderStoreFault(p)
       \/ CreateOrderEmitFault(p)
       \/ PoolStoreFault(p)

SpecFault == Init /\ [][NextFault]_vars

\* Order creation alone, over the bodies that exercise its validation.
NextInput ==
  \E p \in Procs :
    \/ \E body \in InputBodies : CreateOrderReceive(p, body)
    \/ CreateOrderStep(p)

SpecInput == Init /\ [][NextInput]_vars

\* ---------------------------------------------------------------------------
\* Properties
\* ---------------------------------------------------------------------------
\* c hundredths is mills thousandths rounded to two decimals, half up.
IsHalfUp(c, mills) == 10 * c - 5 <= mills /\ mills < 10 * c + 5

\* The sum of price * quantity over the items, in thousandths.
RECURSIVE ExactSum(_, _, _)
ExactSum(items, prices, i) ==
  IF i = 0 THEN 0 ELSE ExactSum(items, prices, i - 1) + prices[i] * items[i].quantity

ExactInr(items) == ExactSum(items, [i \in 1..Len(items) |-> items[i].price_inr], Len(items))
ExactUsd(items) == ExactSum(items, [i \in 1..Len(items) |-> items[i].price_usd], Len(items))

NoItems(body) == "items" \notin body.defined \/ Len(body.items) = 0

Creating(p) == req[p].op = "CreateOrder"
Answered(p) == pc[p] = "idle" /\ res[p].status # 0

ItemsOf(id) == RowsById({r \in order_items : r.order_id = id})

\* An order list entry carries as many items as were submitted with the order.
ReadWhole(entry) == Len(entry.items) = Len(submitted[entry.row.id].items)

\* C1: towards readers outside the creating transaction an order row is
\* visible exactly when all the item rows submitted with it are visible, no
\* item row is visible without its order, and every entry the order list read
\* has collected or returned carries the order's whole item set.
C1_OrderVisibleWithAllItems ==
  /\ \A k \in 1..Len(submitted) :
       (\E o \in orders : o.id = k) <=>
         (Cardinality({r \in order_items : r.order_id = k}) = Len(submitted[k].items))
  /\ \A r \in order_items : \E o \in orders : o.id = r.order_id
  /\ \A p \in Procs :
       req[p].op = "GetOrders" =>
         /\ \A i \in 1..Len(local[p].out) : ReadWhole(local[p].out[i])
         /\ res[p].status = 200 => \A i \in 1..Len(res[p].data) : ReadWhole(res[p].data[i])

\* An order list read has returned an order with its items while another
\* order creation holds uncommitted rows.
C1_Witness ==
  \E p, q \in Procs :
    /\ req[p].op = "GetOrders" /\ res[p].status = 200 /\ Len(res[p].data) > 0
    /\ txn[q].orders # {} /\ txn[q].order_items # {}

\* C2: when POST /api/orders has answered with a failure, no order row and
\* no item row of that request is in the store.
C2_FailureLeavesNoRows ==
  \A p \in Procs :
    (Creating(p) /\ Answered(p) /\ res[p].status # 200) =>
      /\ ~ \E o \in orders : o.id = local[p].order_id
      /\ ~ \E r \in order_items : r.order_id = local[p].order_id

\* C3: the stored total of every order in each currency is the sum of
\* price * quantity over the submitted items rounded half up to two
\* decimals, and is the sum of price * quantity over its stored item rows.
C3_TotalsAreRoundedSums ==
  \A o \in orders :
    /\ IsHalfUp(o.total_amount_inr, ExactInr(submitted[o.id].items))
    /\ IsHalfUp(o.total_amount_usd, ExactUsd(submitted[o.id].items))
    /\ o.total_amount_inr = ExactInr(ItemsOf(o.id))
    /\ o.total_amount_usd = ExactUsd(ItemsOf(o.id))

\* C4: an order creation with an empty or missing item list never gets past
\* the validation (it issues no insert and takes no id), holds no written
\* row, and is answered with 400.
C4_NoItemsIsBadRequest ==
  \A p \in Procs :
    (Creating(p) /\ NoItems(req[p])) =>
      /\ pc[p] \in {"co_getConnection", "co_beginTransaction", "co_rollbackInvalid", "idle"}
      /\ txn[p].orders = {} /\ txn[p].order_items = {}
      /\ local[p].order_id = 0
      /\ pc[p] = "idle" => res[p].status = 400

\* A creation without items has been answered 400 while an order is stored.
C4_Witness ==
  \E p \in Procs :
    /\ Creating(p) /\ NoItems(req[p]) /\ Answered(p) /\ res[p].status = 400
    /\ orders # {}

\* C5: an order creation with items for a table number that resolves to no
\* table is answered with 404 and creates nothing.
C5_UnknownTableIsNotFound ==
  \A p \in Procs :
    ( /\ Creating(p) /\ Answered(p) /\ ~NoItems(req[p])
      /\ ~ \E t \in restaurant_tables : t.table_number = req[p].table_number ) =>
      /\ res[p].status = 404
      /\ local[p].order_id = 0

\* C6: every stored order item has quantity >= 1, and a creation with an
\* item whose quantity is missing or below 1 is answered with 400.
C6_QuantityAtLeastOne ==
  /\ \A r \in order_items : r.quantity >= 1
  /\ \A p \in Procs :
       ( /\ Creating(p) /\ Answered(p) /\ "items" \in req[p].defined
         /\ \E i \in 1..Len(req[p].items) :
              "quantity" \notin req[p].items[i].defined \/ req[p].items[i].quantity < 1 ) =>
         res[p].status = 400

\* The rows are the submitted items, one row per item in submission order,
\* each price as submitted (hundredths against thousandths).
ExactSnapshot(rows, items) ==
  /\ Len(rows) = Len(items)
  /\ \A i \in 1..Len(rows) :
       /\ rows[i].menu_item_id = items[i].id
       /\ rows[i].item_name = items[i].name
       /\ rows[i].quantity = items[i].quantity
       /\ rows[i].price_inr * 10 = items[i].price_inr
       /\ rows[i].price_usd * 10 = items[i].price_usd

\* The same, each price being the submitted price rounded to two decimals.
RoundedSnapshot(rows, items) ==
  /\ Len(rows) = Len(items)
  /\ \A i \in 1..Len(rows) :
       /\ rows[i].menu_item_id = items[i].id
       /\ rows[i].item_name = items[i].name
       /\ rows[i].quantity = items[i].quantity
       /\ IsHalfUp(rows[i].price_inr, items[i].price_inr)
       /\ IsHalfUp(rows[i].price_usd, items[i].price_usd)

\* C7: the items of every stored order, as any read returns them (the
\* store's rows, the order list, the creation's answer), whatever menu
\* updates, status updates and cancellations came in between, are the
\* submitted items in submission order with the submitted name, quantity
\* and unit prices.
C7_ItemsAreSubmittedValues ==
  /\ \A o \in orders : ExactSnapshot(ItemsOf(o.id), submitted[o.id].items)
  /\ \A p \in Procs :
       /\ (req[p].op = "GetOrders" /\ res[p].status = 200) =>
            \A i \in 1..Len(res[p].data) :
              ExactSnapshot(res[p].data[i].items, submitted[res[p].data[i].row.id].items)
       /\ (Creating(p) /\ res[p].status = 200) =>
            ExactSnapshot(res[p].data.items, req[p].items)

\* The same to the precision of the DECIMAL(10, 2) columns: each unit price
\* read is the submitted price rounded half up to two decimals.
ItemsKeepRoundedSnapshot ==
  /\ \A o \in orders : RoundedSnapshot(ItemsOf(o.id), submitted[o.id].items)
  /\ \A p \in Procs :
       /\ (req[p].op = "GetOrders" /\ res[p].status = 200) =>
            \A i \in 1..Len(res[p].data) :
              RoundedSnapshot(res[p].data[i].items, submitted[res[p].data[i].row.id].items)
       /\ (Creating(p) /\ res[p].status = 200) =>
            RoundedSnapshot(res[p].data.items, req[p].items)

\* The order list has returned an order after the menu item it names was
\* renamed and repriced.
ReadAfterMenuUpdate ==
  \E p \in Procs :
    /\ req[p].op = "GetOrders" /\ res[p].status = 200 /\ Len(res[p].data) > 0
    /\ menu_items[1] # SampleMenu[1]
    /\ \E i \in 1..Len(res[p].data) : res[p].data[i].items[1].menu_item_id = 1

\* C8: a row that becomes visible in orders has order_status 'pending', and
\* payment_status 'pending' if its payment method is cash and 'paid' if not;
\* payment_status never changes afterwards.
C8_InitialStatuses ==
  [][\A o \in orders' :
       IF \E x \in orders : x.id = o.id
         THEN \A x \in orders : x.id = o.id => x.payment_status = o.payment_status
         ELSE /\ o.order_status = "pending"
              /\ o.payment_status \in {"pending", "paid"}
              /\ o.payment_status = "pending" <=> submitted[o.id].payment_method = "cash"]_vars

\* A cash order and a card order are stored.
C8_Witness ==
  \E a, b \in orders :
    /\ a.payment_method = "cash" /\ a.payment_status = "pending"
    /\ b.payment_method = "card" /\ b.payment_status = "paid"

NewOrderEvents == {i \in 1..Len(emitted) : emitted[i].event = "new-order"}
NewOrderEventsFor(id) ==
  {i \in NewOrderEvents : Len(emitted[i].data.row) = 1 /\ emitted[i].data.row[1].id = id}

\* C9: every new-order event carries a committed order and all of its
\* stored items, row for row (the statuses aside, which a status update or a
\* cancellation may have changed since the rows were read); a committed order
\* has no event while its creation is still before its read-back and exactly
\* one afterwards; an order that was rolled back or rejected has none, and a
\* creation is answered 200 exactly when its event was published.
C9_NewOrderOncePerCommit ==
  /\ \A i \in NewOrderEvents :
       /\ Len(emitted[i].data.row) = 1
       /\ \E o \in orders :
            /\ [o EXCEPT !.order_status = "pending"] =
                 [emitted[i].data.row[1] EXCEPT !.order_status = "pending"]
            /\ Len(emitted[i].data.items) = Len(submitted[o.id].items)
            /\ Len(ItemsOf(o.id)) = Len(submitted[o.id].items)
            /\ \A j \in 1..Len(emitted[i].data.items) :
                 [emitted[i].data.items[j] EXCEPT !.item_status = "active"] =
                   [ItemsOf(o.id)[j] EXCEPT !.item_status = "active"]
  /\ \A k \in 1..Len(submitted) :
       Cardinality(NewOrderEventsFor(k)) =
         IF /\ \E o \in orders : o.id = k
            /\ ~ \E p \in Procs : pc[p] = "co_selectOrder" /\ local[p].order_id = k
           THEN 1 ELSE 0
  /\ \A p \in Procs :
       (Creating(p) /\ Answered(p)) =>
         (res[p].status = 200 <=> NewOrderEventsFor(local[p].order_id) # {})

\* One creation was rolled back and answered 500, another has published its
\* order of two items.
C9_Witness ==
  /\ \E p \in Procs : Creating(p) /\ Answered(p) /\ res[p].status = 500
                      /\ local[p].order_id # 0
  /\ \E i \in NewOrderEvents : Len(emitted[i].data.items) = 2

\* C10: the status update of an order id that matches no order answers 404
\* at once, changes no row and publishes nothing; every order-status-updated
\* event carries an order.
C10_UnknownOrderIsNotFound ==
  [][\A p \in Procs :
       (pc[p] = "us_update" /\ pc'[p] # "us_update"
          /\ ~ \E o \in orders : o.id = req[p].id) =>
         /\ pc'[p] = "idle" /\ res'[p].status = 404
         /\ orders' = orders /\ order_items' = order_items
         /\ emitted' = emitted
         /\ \A i \in 1..Len(emitted) :
              emitted[i].event = "order-status-updated" => Len(emitted[i].data) = 1]_vars

\* A status update has been answered 404 while an order is stored.
C10_Witness ==
  \E p \in Procs :
    /\ req[p].op = "UpdateOrderStatus" /\ Answered(p) /\ res[p].status = 404
    /\ orders # {}

\* C11: the step in which a status update is answered 200 publishes one
\* order-status-updated event and returns one order row, and both carry the
\* order id and the order_status of the request.
C11_StatusUpdateCarriesItsStatus ==
  [][\A p \in Procs :
       (pc[p] = "us_select" /\ pc'[p] = "idle" /\ res'[p].status = 200) =>
         /\ Len(emitted') = Len(emitted) + 1
         /\ emitted'[Len(emitted')].event = "order-status-updated"
         /\ Len(emitted'[Len(emitted')].data) = 1
         /\ emitted'[Len(emitted')].data[1].id = req[p].id
         /\ emitted'[Len(emitted')].data[1].order_status = req[p].order_status
         /\ Len(res'[p].data) = 1
         /\ res'[p].data[1].id = req[p].id
         /\ res'[p].data[1].order_status = req[p].order_status]_vars

\* C12 as stated: an order whose order_status is served or cancelled keeps
\* that status in every step.
C12_TerminalStatusesStay ==
  [][\A o \in orders :
       o.order_status \in {"served", "cancelled"} =>
         \A x \in orders' : x.id = o.id => x.order_status = o.order_status]_vars

\* C12 (amended): an order whose order_status is served or cancelled stays
\* stored, and its status changes only in the UPDATE of a status update or
\* of a whole-order cancellation that names this order, to the status that
\* request writes; no other step (an item cancellation, a request for
\* another order) changes it.
C12_TerminalChangesOnlyByStatusWrite ==
  [][\A o \in orders :
       o.order_status \in {"served", "cancelled"} =>
         /\ \E x \in orders' : x.id = o.id
         /\ \A x \in orders' :
              (x.id = o.id /\ x.order_status # o.order_status) =>
                \E p \in Procs :
                  \/ /\ pc[p] = "us_update" /\ pc'[p] = "us_select"
                     /\ req[p].id = o.id
                     /\ x.order_status = req[p].order_status
                  \/ /\ pc[p] = "ca_update" /\ pc'[p] = "ca_insert"
                     /\ req[p].id = o.id
                     /\ x.order_status = "cancelled"]_vars

\* A status update was answered with the order as served, and the order is
\* no longer served.
C12_Witness ==
  \E p \in Procs : \E o \in orders :
    /\ req[p].op = "UpdateOrderStatus" /\ res[p].status = 200
    /\ res[p].data[1].id = o.id /\ res[p].data[1].order_status = "served"
    /\ o.order_status # "served"

\* ---------------------------------------------------------------------------
\* The life of one order: creation, status updates and cancellations, with
\* request values the handlers do not validate
\* ---------------------------------------------------------------------------
LifeCreateBodies == {Body(1, <<Pizza(1), Biryani(2)>>, "cash")}

\* A status of the order's life, and a text that names no status.
LifeStatusBodies == {StatusBody(1, s) : s \in {"ready", "burnt"}}

\* A cancellation with reason and cancelled_by, and one with the reason only.
LifeCancelBodies == {CancelBody(1, {"reason", "cancelled_by"}), CancelBody(1, {"reason"})}

NextLife ==
  \E p \in Procs :
    \/ \E body \in LifeCreateBodies : CreateOrderReceive(p, body)
    \/ CreateOrderGetConnection(p)
    \/ CreateOrderBeginTransaction(p)
    \/ CreateOrderSelectTable(p)
    \/ CreateOrderInsertOrder(p)
    \/ CreateOrderInsertItem(p)
    \/ CreateOrderSelectItems(p)
    \/ CreateOrderCommit(p)
    \/ CreateOrderSelectOrder(p)
    \/ \E body \in LifeStatusBodies : UpdateOrderStatusReceive(p, body)
    \/ UpdateOrderStatusStep(p)
    \/ \E body \in LifeCancelBodies : CancelOrderReceive(p, body)
    \/ CancelOrderUpdate(p)
    \/ CancelOrderInsert(p)

SpecLife == Init /\ [][NextLife]_vars

\* The values of order_status the interface names.
OrderStatuses == {"pending", "preparing", "ready", "served", "cancelled"}

\* C13: the order_status of every stored order is one of pending, preparing,
\* ready, served, cancelled.
C13_StatusIsOneOfFive == \A o \in orders : o.order_status \in OrderStatuses

\* C14: when a whole-order cancellation returns, its UPDATE has set the
\* order's status to cancelled exactly if it has written a cancellation
\* record of the order without item reference.
C14_CancelWritesTogether ==
  [][\A p \in Procs :
       (pc[p] = "ca_insert" /\ pc'[p] = "idle") =>
         (local[p].affected = 1 <=>
            \E r \in order_cancellations' \ order_cancellations :
              r.order_id = req[p].id /\ r.item_id = 0)]_vars

C16_CancelUnknownOrderIsNotFound ==
  \A p \in Procs :
    ( /\ req[p].op \in {"CancelOrder", "CancelOrderItem"} /\ Answered(p)
      /\ ~ \E o \in orders : o.id = req[p].id ) =>
      /\ res[p].status = 404
      /\ ~ \E r \in order_cancellations : r.order_id = req[p].id

\* C17: an item cancellation that names a stored order and an item id that
\* is no item of that order is answered 404, and no cancellation record
\* names that order and item.
C17_ForeignItemIsNotFound ==
  \A p \in Procs :
    ( /\ req[p].op = "CancelOrderItem" /\ Answered(p)
      /\ \E o \in orders : o.id = req[p].id
      /\ ~ \E r \in order_items : r.id = req[p].itemId /\ r.order_id = req[p].id ) =>
      /\ res[p].status = 404
      /\ ~ \E c \in order_cancellations :
             c.order_id = req[p].id /\ c.item_id = req[p].itemId

\* C18: every cancellation record with an item reference (item_id 0 stands
\* for NULL) names a stored order item of the record's order.
C18_RecordsNameItemsOfTheirOrder ==
  \A c \in order_cancellations :
    c.item_id # 0 =>
      \E r \in order_items : r.id = c.item_id /\ r.order_id = c.order_id

\* C19: the UPDATE of an item cancellation that matches an item turns that
\* item's status to cancelled and changes nothing else of it, no other item
\* and no order; the INSERT that follows is answered 200 and adds exactly one
\* record, which names the order and the item, changing no order and no
\* item; and no step changes the totals of a stored order.
C19_ItemCancelTouchesOnlyItsItem ==
  [][/\ \A p \in Procs :
          /\ (pc[p] = "ci_update" /\ pc'[p] = "ci_insert" /\ local'[p].affected = 1) =>
               /\ orders' = orders
               /\ order_cancellations' = order_cancellations
               /\ \A r \in order_items :
                    IF r.id = req[p].itemId
                      THEN /\ r.order_id = req[p].id
                           /\ [r EXCEPT !.item_status = "cancelled"] \in order_items'
                      ELSE r \in order_items'
               /\ Cardinality(order_items') = Cardinality(order_items)
          /\ (pc[p] = "ci_insert" /\ pc'[p] = "idle" /\ local[p].affected = 1) =>
               /\ res'[p].status = 200
               /\ orders' = orders
               /\ order_items' = order_items
               /\ order_cancellations \subseteq order_cancellations'
               /\ Cardinality(order_cancellations' \ order_cancellations) = 1
               /\ \A c \in order_cancellations' \ order_cancellations :
                    c.order_id = req[p].id /\ c.item_id = req[p].itemId
     /\ \A o \in orders : \A x \in orders' :
          x.id = o.id => /\ x.total_amount_inr = o.total_amount_inr
                         /\ x.total_amount_usd = o.total_amount_usd]_vars

\* An item cancellation has been answered 200: its item is cancelled, a
\* record names the order and the item, and another item of the same order
\* is active.
C19_Witness ==
  \E p \in Procs :
    /\ req[p].op = "CancelOrderItem" /\ Answered(p) /\ res[p].status = 200
    /\ \E r \in order_items :
         r.id = req[p].itemId /\ r.order_id = req[p].id /\ r.item_status = "cancelled"
    /\ \E r \in order_items :
         r.id # req[p].itemId /\ r.order_id = req[p].id /\ r.item_status = "active"
    /\ \E c \in order_cancellations : c.order_id = req[p].id /\ c.item_id = req[p].itemId

\* C20: an order item is stored with item_status active, is never removed,
\* and in every step keeps its status or moves from active to cancelled.
C20_ItemStatusOnlyActiveToCancelled ==
  [][/\ \A r \in order_items : \E x \in order_items' : x.id = r.id
     /\ \A x \in order_items' :
          IF \E r \in order_items : r.id = x.id
            THEN \A r \in order_items :
                   r.id = x.id =>
                     \/ x.item_status = r.item_status
                     \/ r.item_status = "active" /\ x.item_status = "cancelled"
            ELSE x.item_status = "active"]_vars

\* An item was cancelled twice and is cancelled.
C20_Witness ==
  \E r \in order_items :
    /\ r.item_status = "cancelled"
    /\ Cardinality({c \in order_cancellations :
                      c.order_id = r.order_id /\ c.item_id = r.id}) = 2

\* ---------------------------------------------------------------------------
\* Tables and table groups: POST /api/tables, PUT /api/tables/:id,
\* DELETE /api/tables/:id and DELETE /api/table-groups/:id
\* ---------------------------------------------------------------------------
TableBody(table_number, group_id) ==
  [op |-> "CreateTable", table_number |-> table_number, group_id |-> group_id]

UpdateTableBody(id, table_number, group_id, defined) ==
  [op |-> "UpdateTable", id |-> id, table_number |-> table_number,
   group_id |-> group_id, defined |-> defined]

DeleteTableBody(id) == [op |-> "DeleteTable", id |-> id]

DeleteTableGroupBody(id) == [op |-> "DeleteTableGroup", id |-> id]

\* A table row that another connection inserted and has not committed holds
\* its id and its unique table_number.
TableLocked(p, id) == \E o \in Procs \ {p} : \E r \in txn[o].restaurant_tables : r.id = id
TableNumberLocked(p, n) ==
  \E o \in Procs \ {p} : \E r \in txn[o].restaurant_tables : r.table_number = n

\* An order row that another connection inserted and has not committed holds
\* a shared lock on the table row it references.
TableReferenceLocked(p, id) ==
  \E o \in Procs \ {p} : \E r \in txn[o].orders : r.table_id = id

\* SELECT rt.*, COALESCE(tg.name, "Non AC") as group_name FROM restaurant_tables rt
\* LEFT JOIN table_groups tg ON rt.group_id = tg.id WHERE rt.id = ?
TableWithGroupName(id) ==
  LET rows == RowsById({r \in restaurant_tables : r.id = id})
  IN  [i \in 1..Len(rows) |->
         [row |-> rows[i],
          group_name |-> IF \E g \in table_groups : g.id = rows[i].group_id
                           THEN (CHOOSE g \in table_groups : g.id = rows[i].group_id).name
                           ELSE "Non AC"]]

CreateTableReceive(p, body) ==
  /\ Receive(p, body)
  /\ pc' = [pc EXCEPT ![p] = "ct_getConnection"]
  /\ UNCHANGED <<db, txn, conn, emitted, submitted>>

\* const connection = await pool.getConnection();
CreateTableGetConnection(p) ==
  /\ pc[p] = "ct_getConnection"
  /\ conn' = [conn EXCEPT ![p] = @ + 1]
  /\ pc' = [pc EXCEPT ![p] = "ct_beginTransaction"]
  /\ UNCHANGED <<db, txn, req, local, res, emitted, submitted, started>>

\* await connection.beginTransaction(); if (!table_number) rollback, 400.
CreateTableBeginTransaction(p) ==
  /\ pc[p] = "ct_beginTransaction"
  /\ txn' = [txn EXCEPT ![p] = [NoTxn EXCEPT !.active = TRUE]]
  /\ pc' = [pc EXCEPT ![p] = IF req[p].table_number = 0 THEN "ct_rollbackInvalid"
                              ELSE "ct_selectExisting"]
  /\ UNCHANGED <<db, conn, req, local, res, emitted, submitted, started>>

\* await connection.rollback(); return res.status(400)...; finally release.
CreateTableRollbackInvalid(p) ==
  /\ pc[p] = "ct_rollbackInvalid"
  /\ txn' = [txn EXCEPT ![p] = NoTxn]
  /\ conn' = [conn EXCEPT ![p] = @ - 1]
  /\ Finish(p, [status |-> 400])
  /\ Forget(p)
  /\ UNCHANGED <<db, req, emitted, submitted, started>>

\* SELECT id FROM restaurant_tables WHERE table_number = ?
CreateTableSelectExisting(p) ==
  /\ pc[p] = "ct_selectExisting"
  /\ pc' = [pc EXCEPT ![p] =
              IF \E t \in restaurant_tables : t.table_number = req[p].table_number
                THEN "ct_rollbackExists" ELSE "ct_columnCheck"]
  /\ UNCHANGED <<db, txn, conn, req, local, res, emitted, submitted, started>>

\* if (existingTable.length > 0) rollback, 400; finally release.
CreateTableRollbackExists(p) ==
  /\ pc[p] = "ct_rollbackExists"
  /\ txn' = [txn EXCEPT ![p] = NoTxn]
  /\ conn' = [conn EXCEPT ![p] = @ - 1]
  /\ Finish(p, [status |-> 400])
  /\ Forget(p)
  /\ UNCHANGED <<db, req, emitted, submitted, started>>

\* SELECT COLUMN_NAME FROM INFORMATION_SCHEMA.COLUMNS ...: restaurant_tables
\* has its group_id column.
CreateTableColumnCheck(p) ==
  /\ pc[p] = "ct_columnCheck"
  /\ pc' = [pc EXCEPT ![p] = "ct_insert"]
  /\ UNCHANGED <<db, txn, conn, req, local, res, emitted, submitted, started>>

\* INSERT INTO restaurant_tables (table_number, table_name, qr_code_data, group_id)
\* with group_id || null, in the transaction. The insert waits for a
\* connection that holds the same table_number uncommitted, and is refused
\* when the number is stored (table_number INTEGER UNIQUE).
CreateTableInsert(p) ==
  /\ pc[p] = "ct_insert"
  /\ ~TableNumberLocked(p, req[p].table_number)
  /\ IF \E t \in restaurant_tables : t.table_number = req[p].table_number
       THEN /\ pc' = [pc EXCEPT ![p] = "ct_catch"]
            /\ UNCHANGED <<txn, autoInc, local>>
       ELSE /\ txn' = [txn EXCEPT ![p].restaurant_tables = @ \cup
                         {[id |-> autoInc.restaurant_tables,
                           table_number |-> req[p].table_number,
                           group_id |-> req[p].group_id]}]
            /\ autoInc' = [autoInc EXCEPT !.restaurant_tables = @ + 1]
            /\ local' = [local EXCEPT ![p].table_id = autoInc.restaurant_tables]
            /\ pc' = [pc EXCEPT ![p] = "ct_commit"]
  /\ UNCHANGED <<table_groups, restaurant_tables, menu_items, orders, order_items,
                 order_cancellations, conn, req, res, emitted, submitted, started>>

\* await connection.commit();
CreateTableCommit(p) ==
  /\ pc[p] = "ct_commit"
  /\ restaurant_tables' = restaurant_tables \cup txn[p].restaurant_tables
  /\ txn' = [txn EXCEPT ![p] = NoTxn]
  /\ pc' = [pc EXCEPT ![p] = "ct_select"]
  /\ UNCHANGED <<table_groups, menu_items, orders, order_items, order_cancellations,
                 autoInc, conn, req, local, res, emitted, submitted, started>>

\* pool.execute(getQuery, [result.insertId]); res.json({ success: true,
\* data: newTable[0] }); finally release.
CreateTableSelect(p) ==
  /\ pc[p] = "ct_select"
  /\ Finish(p, [status |-> 200, data |-> TableWithGroupName(local[p].table_id)])
  /\ conn' = [conn EXCEPT ![p] = @ - 1]
  /\ Forget(p)
  /\ UNCHANGED <<db, txn, req, emitted, submitted, started>>

\* catch (error) { await connection.rollback(); res.status(500)... } finally release.
CreateTableCatch(p) ==
  /\ pc[p] = "ct_catch"
  /\ txn' = [txn EXCEPT ![p] = NoTxn]
  /\ conn' = [conn EXCEPT ![p] = @ - 1]
  /\ Finish(p, [status |-> 500])
  /\ Forget(p)
  /\ UNCHANGED <<db, req, emitted, submitted, started>>

CreateTableStep(p) ==
  \/ CreateTableGetConnection(p)
  \/ CreateTableBeginTransaction(p)
  \/ CreateTableRollbackInvalid(p)
  \/ CreateTableSelectExisting(p)
  \/ CreateTableRollbackExists(p)
  \/ CreateTableColumnCheck(p)
  \/ CreateTableInsert(p)
  \/ CreateTableCommit(p)
  \/ CreateTableSelect(p)
  \/ CreateTableCatch(p)

UpdateTableReceive(p, body) ==
  /\ Receive(p, body)
  /\ pc' = [pc EXCEPT ![p] = "ut_update"]
  /\ UNCHANGED <<db, txn, conn, emitted, submitted>>

\* UPDATE restaurant_tables SET table_number = ?, table_name = ?, qr_code_data = ?
\* [, group_id = ?] WHERE id = ?, the group_id (group_id || null) only when the
\* body carries one. An undefined table_number is an undefined bind parameter,
\* a table_number stored for another table is a duplicate key (both 500);
\* affectedRows 0 is answered 404.
UpdateTableUpdate(p) ==
  /\ pc[p] = "ut_update"
  /\ ~TableLocked(p, req[p].id)
  /\ ~TableNumberLocked(p, req[p].table_number)
  /\ IF "table_number" \notin req[p].defined
       THEN /\ Finish(p, [status |-> 500])
            /\ UNCHANGED restaurant_tables
       ELSE IF ~ \E t \in restaurant_tables : t.id = req[p].id
       THEN /\ Finish(p, [status |-> 404])
            /\ UNCHANGED restaurant_tables
       ELSE IF \E t \in restaurant_tables :
                 t.id # req[p].id /\ t.table_number = req[p].table_number
       THEN /\ Finish(p, [status |-> 500])
            /\ UNCHANGED restaurant_tables
       ELSE /\ restaurant_tables' =
                 {IF t.id = req[p].id
                    THEN [t EXCEPT !.table_number = req[p].table_number,
                                   !.group_id = IF "group_id" \in req[p].defined
                                                  THEN req[p].group_id ELSE @]
                    ELSE t : t \in restaurant_tables}
            /\ pc' = [pc EXCEPT ![p] = "ut_select"]
            /\ UNCHANGED res
  /\ UNCHANGED <<table_groups, menu_items, orders, order_items, order_cancellations,
                 autoInc, txn, conn, req, local, emitted, submitted, started>>

\* SELECT rt.*, COALESCE(tg.name, "Non AC") ... WHERE rt.id = ?;
\* res.json({ success: true, data: updatedTable[0] })
UpdateTableSelect(p) ==
  /\ pc[p] = "ut_select"
  /\ Finish(p, [status |-> 200, data |-> TableWithGroupName(req[p].id)])
  /\ UNCHANGED <<db, txn, conn, req, local, emitted, submitted, started>>

UpdateTableStep(p) ==
  \/ UpdateTableUpdate(p)
  \/ UpdateTableSelect(p)

DeleteTableReceive(p, body) ==
  /\ Receive(p, body)
  /\ pc' = [pc EXCEPT ![p] = "dt_delete"]
  /\ UNCHANGED <<db, txn, conn, emitted, submitted>>

\* Variant: the orders' reference to their table with ON DELETE CASCADE: the
\* table goes with its orders, their items and their cancellation records.
DeleteTableDeleteCascade(p) ==
  /\ pc[p] = "dt_delete"
  /\ ~TableLocked(p, req[p].id)
  /\ ~TableReferenceLocked(p, req[p].id)
  /\ LET gone == {o.id : o \in {x \in orders : x.table_id = req[p].id}}
     IN  /\ restaurant_tables' = {t \in restaurant_tables : t.id # req[p].id}
         /\ orders' = {o \in orders : o.id \notin gone}
         /\ order_items' = {r \in order_items : r.order_id \notin gone}
         /\ order_cancellations' = {c \in order_cancellations : c.order_id \notin gone}
  /\ Finish(p, [status |-> IF \E t \in restaurant_tables : t.id = req[p].id
                             THEN 200 ELSE 404])
  /\ UNCHANGED <<table_groups, menu_items, autoInc, txn, conn, req, local, emitted,
                 submitted, started>>

\* DELETE FROM restaurant_tables WHERE id = ?: affectedRows 0 is answered
\* 404; a table that an order references is kept by FOREIGN KEY (table_id)
\* REFERENCES restaurant_tables(id), which has no ON DELETE action, and the
\* catch answers 500.
DeleteTableDelete(p) ==
  /\ pc[p] = "dt_delete"
  /\ ~TableLocked(p, req[p].id)
  /\ ~TableReferenceLocked(p, req[p].id)
  /\ IF ~ \E t \in restaurant_tables : t.id = req[p].id
       THEN /\ Finish(p, [status |-> 404])
            /\ UNCHANGED restaurant_tables
       ELSE IF \E o \in orders : o.table_id = req[p].id
       THEN /\ Finish(p, [status |-> 500])
            /\ UNCHANGED restaurant_tables
       ELSE /\ restaurant_tables' = {t \in restaurant_tables : t.id # req[p].id}
            /\ Finish(p, [status |-> 200])
  /\ UNCHANGED <<table_groups, menu_items, orders, order_items, order_cancellations,
                 autoInc, txn, conn, req, local, emitted, submitted, started>>

DeleteTableGroupReceive(p, body) ==
  /\ Receive(p, body)
  /\ pc' = [pc EXCEPT ![p] = "dg_count"]
  /\ UNCHANGED <<db, txn, conn, emitted, submitted>>

\* SELECT COUNT(*) as count FROM restaurant_tables WHERE group_id = ?;
\* if (tablesUsing[0].count > 0) return res.status(400)...
DeleteTableGroupCount(p) ==
  /\ pc[p] = "dg_count"
  /\ IF \E t \in restaurant_tables : t.group_id = req[p].id
       THEN Finish(p, [status |-> 400])
       ELSE /\ pc' = [pc EXCEPT ![p] = "dg_delete"]
            /\ UNCHANGED res
  /\ UNCHANGED <<db, txn, conn, req, local, emitted, submitted, started>>

\* DELETE FROM table_groups WHERE id = ?; affectedRows 0 is answered 404.
DeleteTableGroupDelete(p) ==
  /\ pc[p] = "dg_delete"
  /\ table_groups' = {g \in table_groups : g.id # req[p].id}
  /\ Finish(p, [status |-> IF \E g \in table_groups : g.id = req[p].id
                             THEN 200 ELSE 404])
  /\ UNCHANGED <<restaurant_tables, menu_items, orders, order_items,
                 order_cancellations, autoInc, txn, conn, req, local, emitted,
                 submitted, started>>

DeleteTableGroupStep(p) ==
  \/ DeleteTableGroupCount(p)
  \/ DeleteTableGroupDelete(p)

\* ---------------------------------------------------------------------------
\* The administration of tables and table groups
\* ---------------------------------------------------------------------------
\* A new table in the default group, a table number that is taken, and a
\* body without table number.
TableBodies == {TableBody(11, 1), TableBody(1, 0), TableBody(0, 0)}

\* Table 1 is put into the default group; table 2 is renumbered to itself
\* with no group_id in the body.
UpdateTableBodies ==
  {UpdateTableBody(1, 1, 1, {"table_number", "group_id"}),
   UpdateTableBody(2, 2, 0, {"table_number"})}

DeleteTableGroupBodies == {DeleteTableGroupBody(1)}

NextTables ==
  \E p \in Procs :
    \/ \E body \in TableBodies : CreateTableReceive(p, body)
    \/ CreateTableStep(p)
    \/ \E body \in UpdateTableBodies : UpdateTableReceive(p, body)
    \/ UpdateTableStep(p)
    \/ \E body \in DeleteTableGroupBodies : DeleteTableGroupReceive(p, body)
    \/ DeleteTableGroupStep(p)

SpecTables == Init /\ [][NextTables]_vars

\* The table groups of the initial store.
InitialGroupIds == {1}

\* C30: no stored table's group_id names a table group of the initial store
\* that has been deleted.
C30_NoTableInDeletedGroup ==
  \A t \in restaurant_tables :
    t.group_id \in InitialGroupIds => \E g \in table_groups : g.id = t.group_id

\* C30, the deletion step: the step that removes a table group row finds no
\* stored table that uses the group.
C30_GroupUnusedWhenRemoved ==
  [][\A g \in table_groups \ table_groups' :
       ~ \E t \in restaurant_tables : t.group_id = g.id]_vars

\* ---------------------------------------------------------------------------
\* One order among the requests that write near it: its creation, status
\* updates, cancellations of the order and of an item, a menu update and the
\* deletion of its table
\* ---------------------------------------------------------------------------
FrameStatusBodies == {StatusBody(1, "served")}

FrameCancelBodies == {CancelBody(1, {"reason", "cancelled_by"})}

FrameCancelItemBodies == {CancelItemBody(1, 1, {"reason", "cancelled_by"})}

FrameMenuBodies == {MenuBody(1, "Pizza Special", 319000, 4250)}

\* The table the order is placed at.
FrameDeleteTableBodies == {DeleteTableBody(1)}

NextFrame ==
  \E p \in Procs :
    \/ \E body \in LifeCreateBodies : CreateOrderReceive(p, body)
    \/ CreateOrderGetConnection(p)
    \/ CreateOrderBeginTransaction(p)
    \/ CreateOrderSelectTable(p)
    \/ CreateOrderRollbackNotFound(p)
    \/ CreateOrderInsertOrder(p)
    \/ CreateOrderInsertItem(p)
    \/ CreateOrderSelectItems(p)
    \/ CreateOrderCommit(p)
    \/ CreateOrderSelectOrder(p)
    \/ CreateOrderCatch(p)
    \/ \E body \in FrameStatusBodies : UpdateOrderStatusReceive(p, body)
    \/ UpdateOrderStatusStep(p)
    \/ \E body \in FrameCancelBodies : CancelOrderReceive(p, body)
    \/ \E body \in FrameCancelItemBodies : CancelOrderItemReceive(p, body)
    \/ CancelStep(p)
    \/ \E body \in FrameMenuBodies : UpdateMenuItemReceive(p, body)
    \/ UpdateMenuItemStep(p)
    \/ \E body \in FrameDeleteTableBodies : DeleteTableReceive(p, body)
    \/ DeleteTableDelete(p)

SpecFrame == Init /\ [][NextFrame]_vars

\* C21: in every step the stored cancellation records stay as they are, and
\* a record is added only by the INSERT step of a whole-order cancellation
\* or of an item cancellation.
C21_CancellationLogOnlyGrows ==
  [][/\ order_cancellations \subseteq order_cancellations'
     /\ order_cancellations' # order_cancellations =>
          \E p \in Procs :
            /\ pc[p] \in {"ca_insert", "ci_insert"}
            /\ pc'[p] = "idle"
            /\ req[p].op \in {"CancelOrder", "CancelOrderItem"}]_vars

\* The deletion of the table of a cancelled order was answered 500 and the
\* cancellation record of the order is stored.
C21_Witness ==
  \E p \in Procs : \E o \in orders :
    /\ req[p].op = "DeleteTable" /\ Answered(p) /\ res[p].status = 500
    /\ o.table_id = req[p].id
    /\ \E c \in order_cancellations : c.order_id = o.id

\* C26: in every step every stored order stays stored with all its columns
\* but order_status unchanged, and every stored order item stays stored with
\* all its columns but item_status unchanged.
C26_OnlyStatusesChange ==
  [][/\ \A o \in orders :
          \E x \in orders' : x.id = o.id /\ [x EXCEPT !.order_status = o.order_status] = o
     /\ \A r \in order_items :
          \E x \in order_items' :
            x.id = r.id /\ [x EXCEPT !.item_status = r.item_status] = r]_vars

\* The order is served, one of its items is cancelled, and the rest of the
\* order and of the item is as it was created.
C26_Witness ==
  \E o \in orders : \E r \in order_items :
    /\ o.order_status = "served" /\ o.payment_status = "pending"
    /\ r.order_id = o.id /\ r.item_status = "cancelled"
    /\ r.item_name = submitted[o.id].items[1].name

\* ---------------------------------------------------------------------------
\* A broadcaster that fails
\* ---------------------------------------------------------------------------
\* io.emit('order-status-updated', ...) throws after the UPDATE and the
\* read-back: nothing is sent and the catch answers 500.
UpdateOrderStatusEmitFault(p) ==
  /\ pc[p] = "us_select"
  /\ Finish(p, [status |-> 500])
  /\ UNCHANGED <<db, txn, conn, req, local, emitted, submitted, started>>

\* The life of one order with a broadcaster that may throw.
NextEmitFault ==
  \/ NextLife
  \/ \E p \in Procs :
       \/ CreateOrderEmitFault(p)
       \/ CreateOrderCatch(p)
       \/ UpdateOrderStatusEmitFault(p)

SpecEmitFault == Init /\ [][NextEmitFault]_vars

\* C22: a creation whose order is committed has been answered 200, and a
\* status update that found its order has been answered 200, also when the
\* broadcaster threw.
C22_EmitFaultKeepsSuccess ==
  \A p \in Procs :
    /\ ( /\ Creating(p) /\ Answered(p)
         /\ \E o \in orders : o.id = local[p].order_id ) => res[p].status = 200
    /\ ( /\ req[p].op = "UpdateOrderStatus" /\ Answered(p)
         /\ res[p].status # 404 ) => res[p].status = 200

\* The order rows an event carries.
EventOrder(e) == IF e.event = "new-order" THEN e.data.row ELSE e.data

\* The positions of the events published for an order.
EventsFor(id) ==
  {i \in 1..Len(emitted) :
     Len(EventOrder(emitted[i])) = 1 /\ EventOrder(emitted[i])[1].id = id}

\* The order as the most recently published event for it carries it.
LastPublished(id) ==
  EventOrder(emitted[CHOOSE i \in EventsFor(id) : \A j \in EventsFor(id) : j <= i])[1]

Quiescent == \A p \in Procs : pc[p] = "idle"

\* C23: when no request is in flight, every stored order has a published
\* event, and the most recent one carries the order_status that is stored.
C23_DashboardHoldsStoredStatus ==
  Quiescent =>
    \A o \in orders :
      /\ EventsFor(o.id) # {}
      /\ LastPublished(o.id).order_status = o.order_status

\* A creation request that passes the validation, names a stored table and
\* carries values the store accepts for every column.
Acceptable(body) ==
  /\ ~InvalidInput(body)
  /\ \E t \in restaurant_tables :
       /\ t.table_number = body.table_number
       /\ ~OrderInsertFails(body, t.id, TotalInr(body.items), TotalUsd(body.items))
  /\ \A i \in 1..Len(body.items) : ~ItemInsertFails(body.items[i])

\* C24: order creations for stored tables succeed whatever runs beside
\* them: an answered one was answered 200 with its own order, which is stored
\* with exactly the items of its own request; the item rows a creation holds
\* uncommitted belong to its own order; and two creations never have the
\* same order id.
C24_ConcurrentCreationsKeepApart ==
  /\ \A p \in Procs :
       Creating(p) =>
         /\ \A r \in txn[p].order_items : r.order_id = local[p].order_id
         /\ \A o \in txn[p].orders : o.id = local[p].order_id
         /\ (Answered(p) /\ Acceptable(req[p])) =>
              /\ res[p].status = 200
              /\ local[p].order_id # 0
              /\ Len(res[p].data.row) = 1
              /\ res[p].data.row[1].id = local[p].order_id
              /\ \E o \in orders : o.id = local[p].order_id
              /\ RoundedSnapshot(ItemsOf(local[p].order_id), req[p].items)
              /\ RoundedSnapshot(res[p].data.items, req[p].items)
  /\ \A p, q \in Procs :
       (p # q /\ Creating(p) /\ Creating(q) /\ local[p].order_id # 0) =>
         local[p].order_id # local[q].order_id

\* Two creations with different items for the same table ran side by side:
\* the one whose order was inserted second has been answered 200 while the
\* other still holds its order and items uncommitted.
C24_Witness ==
  \E p, q \in Procs :
    /\ p # q /\ Creating(p) /\ Creating(q)
    /\ req[p].table_number = req[q].table_number
    /\ req[p].items # req[q].items
    /\ Answered(p) /\ res[p].status = 200
    /\ local[p].order_id > local[q].order_id
    /\ txn[q].orders # {} /\ txn[q].order_items # {}

\* ---------------------------------------------------------------------------
\* A store that fails when the connection is acquired or rolled back
\* ---------------------------------------------------------------------------
\* await pool.getConnection() rejects. The await stands before the try block:
\* the handler's promise rejects, no connection is held and no response is
\* sent; the request stays open.
CreateOrderGetConnectionFault(p) ==
  /\ pc[p] = "co_getConnection"
  /\ pc' = [pc EXCEPT ![p] = "co_unhandled"]
  /\ UNCHANGED <<db, txn, conn, req, local, res, emitted, submitted, started>>

\* await connection.rollback() rejects inside the catch block: the throw
\* leaves the catch before res.status(500), the finally block releases the
\* connection, and the handler's promise rejects. The connection was lost
\* (the store has discarded the transaction), or it is alive and goes back
\* to the pool with the transaction open.
CreateOrderRollbackFault(p, lost) ==
  /\ pc[p] = "co_catch"
  /\ txn' = [txn EXCEPT ![p] = IF lost THEN NoTxn ELSE @]
  /\ conn' = [conn EXCEPT ![p] = @ - 1]
  /\ pc' = [pc EXCEPT ![p] = "co_unhandled"]
  /\ UNCHANGED <<db, req, local, res, emitted, submitted, started>>

\* An order of one item, an order without items and an order for a table
\* that does not exist.
ConnCreateBodies ==
  { Body(3, <<Pizza(2)>>, "cash"), Body(1, <<>>, "cash"), Body(999, <<Pizza(1)>>, "cash") }

ConnStatusBodies == {StatusBody(1, "preparing")}

ConnCancelBodies == {CancelBody(1, {"reason", "cancelled_by"})}

ConnCancelItemBodies == {CancelItemBody(1, 1, {"reason", "cancelled_by"})}

NextConn ==
  \E p \in Procs :
    \/ \E body \in ConnCreateBodies : CreateOrderReceive(p, body)
    \/ CreateOrderStep(p)
    \/ \E body \in ConnStatusBodies : UpdateOrderStatusReceive(p, body)
    \/ UpdateOrderStatusStep(p)
    \/ \E body \in ConnCancelBodies : CancelOrderReceive(p, body)
    \/ \E body \in ConnCancelItemBodies : CancelOrderItemReceive(p, body)
    \/ CancelStep(p)
    \/ CreateOrderStoreFault(p)
    \/ PoolStoreFault(p)
    \/ CreateOrderGetConnectionFault(p)
    \/ \E lost \in BOOLEAN : CreateOrderRollbackFault(p, lost)

SpecConn == Init /\ [][NextConn]_vars

\* The handler of request p has run to its end, by returning or by throwing.
HandlerEnded(p) == req[p].op # "none" /\ pc[p] \in {"idle", "co_unhandled"}

\* C25: every creation, status update, cancellation and item cancellation
\* whose handler has ended has been answered, with a success or a failure.
C25_EveryRequestIsAnswered ==
  \A p \in Procs :
    ( /\ req[p].op \in {"CreateOrder", "UpdateOrderStatus", "CancelOrder", "CancelOrderItem"}
      /\ HandlerEnded(p) ) =>
      res[p].status \in {200, 400, 404, 500}

\* C28: a request holds no connection or one; an order creation past its
\* getConnection holds one until its handler ends; a transaction is open
\* only on a held connection; and when a handler has ended it holds no
\* connection and has left no transaction open.
C28_ConnectionsAndTransactionsEnd ==
  \A p \in Procs :
    /\ conn[p] \in {0, 1}
    /\ (Creating(p) /\ ~HandlerEnded(p) /\ pc[p] # "co_getConnection") => conn[p] = 1
    /\ txn[p].active => conn[p] = 1
    /\ HandlerEnded(p) => (conn[p] = 0 /\ ~txn[p].active)

C27_WitnessStatusLast ==
  \E p, q \in Procs : \E o \in orders :
    /\ req[p].op = "UpdateOrderStatus" /\ Answered(p) /\ res[p].status = 200
    /\ req[q].op = "CancelOrder" /\ Answered(q) /\ res[q].status = 200
    /\ req[p].id = o.id /\ req[q].id = o.id
    /\ o.order_status = req[p].order_status
    /\ \E c \in order_cancellations : c.order_id = o.id /\ c.item_id = 0

\* ---------------------------------------------------------------------------
\* One order and status updates to each of the five statuses
\* ---------------------------------------------------------------------------
AllStatusBodies ==
  {StatusBody(1, s) : s \in {"pending", "preparing", "ready", "served", "cancelled"}}

NextStatus ==
  \E p \in Procs :
    \/ \E body \in LifeCreateBodies : CreateOrderReceive(p, body)
    \/ CreateOrderGetConnection(p)
    \/ CreateOrderBeginTransaction(p)
    \/ CreateOrderSelectTable(p)
    \/ CreateOrderInsertOrder(p)
    \/ CreateOrderInsertItem(p)
    \/ CreateOrderSelectItems(p)
    \/ CreateOrderCommit(p)
    \/ CreateOrderSelectOrder(p)
    \/ \E body \in AllStatusBodies : UpdateOrderStatusReceive(p, body)
    \/ UpdateOrderStatusStep(p)

SpecStatus == Init /\ [][NextStatus]_vars

\* C29: for every stored order, whatever its current status among the five,
\* the UPDATE of a status update to any of the five stores the new status,
\* leaves the rest of the order as it is and goes on to the read-back, which
\* is answered 200; none is answered with a refusal.
C29_EveryTransitionIsApplied ==
  [][\A p \in Procs :
       /\ \A o \in orders :
            (pc[p] = "us_update" /\ pc'[p] # "us_update" /\ req[p].id = o.id
               /\ o.order_status \in OrderStatuses
               /\ req[p].order_status \in OrderStatuses) =>
              /\ pc'[p] = "us_select"
              /\ [o EXCEPT !.order_status = req[p].order_status] \in orders'
              /\ Cardinality(orders') = Cardinality(orders)
       /\ (pc[p] = "us_select" /\ pc'[p] = "idle") =>
            /\ res'[p].status = 200
            /\ Len(res'[p].data) = 1]_vars

\* An update to ready and an update to pending of the same order have both
\* been answered 200, each with the status it wrote; the order, which was
\* ready, is pending.
C29_Witness ==
  \E p, q \in Procs : \E o \in orders :
    /\ req[p].op = "UpdateOrderStatus" /\ Answered(p) /\ res[p].status = 200
    /\ req[q].op = "UpdateOrderStatus" /\ Answered(q) /\ res[q].status = 200
    /\ req[p].id = o.id /\ req[q].id = o.id
    /\ req[q].order_status = "ready" /\ res[q].data[1].order_status = "ready"
    /\ req[p].order_status = "pending" /\ res[p].data[1].order_status = "pending"
    /\ o.order_status = "pending"
====
